---- MODULE Spec2Model ----
(***************************************************************************)
(* Model of the product-verification handler POST /api/verify-product      *)
(* (src/src/app/api/verify-product/route.ts): the in-memory rate limiter,   *)
(* input validation and sanitization, authentication, the points check,    *)
(* the three alert queries, deduplication, the decision and the three      *)
(* database writes.  A string is a sequence of one-character strings.      *)
(***************************************************************************)
EXTENDS Integers, Sequences, FiniteSets, TLC

VARIABLES
  now,            \* Date.now(), in milliseconds
  rateLimitStore, \* Map<ip, {count, resetTime}>: a function on the keys it holds
  users,          \* table User: a function from the ids that have a row to the row
  productChecks,  \* table ProductCheck, in order of creation
  checkResults,   \* table CheckResult, in order of creation
  alerts,         \* table NafdacAlert (never written by the handler)
  req,            \* the running invocations of POST: slot -> its local variables
  admitted,       \* history: ip -> the recent times at which checkRateLimit returned true
  env             \* the clients of a run: slots, headers, bodies and sessions they use

vars == <<now, rateLimitStore, users, productChecks, checkResults, alerts, req, admitted, env>>

-----------------------------------------------------------------------------
(* Bounds of the model *)

\* the clock advances in steps of TickMs up to MaxNow
TickMs == 30000
MaxNow == 90000
\* the clients of Spec stop once the rate limiter has counted this many requests
MaxRequests == 1
\* the balance of the user that has a row at the start
InitialBalance == 0

Slots == {"r1", "r2"}

-----------------------------------------------------------------------------
(* Program constants *)

RATE_LIMIT_WINDOW == 60 * 1000
RATE_LIMIT_MAX_REQUESTS == 10
AUTH_TIMEOUT == 10000
DEFAULT_POINTS == 5
QUERY_TAKE == 5
TOP_N == 10
MAX_INPUT == 1000
NAME_MIN == 2
NAME_MAX == 200
DESC_MIN == 5
DESC_MAX == 1000
BATCH_MAX == 50
IMAGES_MAX == 3
DEFAULT_SOURCE_URL == "https://nafdac.gov.ng/category/recalls-and-alerts/"

\* undefined and null, told apart from every string (a string holds single characters)
Undefined == <<"undefined">>
Null == <<"null">>

-----------------------------------------------------------------------------
(* Strings *)

UpperChars == <<"A", "B", "C", "D", "W", "X", "Y", "Z">>
LowerChars == <<"a", "b", "c", "d", "w", "x", "y", "z">>
Digits == {"0", "1", "2", "3"}
Whitespace == {" ", "\t", "\n"}
Forbidden == {"<", ">", "\"", "'", ";", "&"}

Index(seq, c) == CHOOSE i \in 1..Len(seq) : seq[i] = c
InSeq(seq, c) == \E i \in 1..Len(seq) : seq[i] = c

\* String.prototype.toLowerCase / toUpperCase
LowerChar(c) == IF InSeq(UpperChars, c) THEN LowerChars[Index(UpperChars, c)] ELSE c
UpperChar(c) == IF InSeq(LowerChars, c) THEN UpperChars[Index(LowerChars, c)] ELSE c
toLowerCase(s) == [i \in 1..Len(s) |-> LowerChar(s[i])]
toUpperCase(s) == [i \in 1..Len(s) |-> UpperChar(s[i])]

\* String.prototype.trim
RECURSIVE TrimLeft(_)
TrimLeft(s) == IF s # <<>> /\ Head(s) \in Whitespace THEN TrimLeft(Tail(s)) ELSE s
RECURSIVE TrimRight(_)
TrimRight(s) ==
  IF s # <<>> /\ s[Len(s)] \in Whitespace THEN TrimRight(SubSeq(s, 1, Len(s) - 1)) ELSE s
trim(s) == TrimRight(TrimLeft(s))

\* replace(/[<>\"';&]/g, '')
RemoveForbidden(s) == SelectSeq(s, LAMBDA c : c \notin Forbidden)

\* replace(/\s+/g, ' ')
RECURSIVE CollapseWhitespace(_)
CollapseWhitespace(s) ==
  IF s = <<>> THEN <<>>
  ELSE IF Head(s) \in Whitespace
       THEN <<" ">> \o CollapseWhitespace(TrimLeft(s))
       ELSE <<Head(s)>> \o CollapseWhitespace(Tail(s))

\* substring(0, n)
substring(s, n) == SubSeq(s, 1, IF Len(s) < n THEN Len(s) ELSE n)

sanitizeInput(input) ==
  substring(CollapseWhitespace(RemoveForbidden(trim(input))), MAX_INPUT)

\* a value is truthy unless it is undefined, null or the empty string
Truthy(v) == v # Undefined /\ v # Null /\ v # <<>>

\* String.prototype.includes
Contains(hay, needle) ==
  \E i \in 1..(Len(hay) - Len(needle) + 1) : SubSeq(hay, i, i + Len(needle) - 1) = needle

\* split(' ')[0]
RECURSIVE FirstWord(_)
FirstWord(s) ==
  IF s = <<>> \/ Head(s) = " " THEN <<>> ELSE <<Head(s)>> \o FirstWord(Tail(s))

\* Array.prototype.join
RECURSIVE join(_, _)
join(strs, sep) ==
  IF strs = <<>> THEN <<>>
  ELSE IF Len(strs) = 1 THEN strs[1]
  ELSE strs[1] \o sep \o join(Tail(strs), sep)

-----------------------------------------------------------------------------
(* The rate limiter *)

\* userLimit.count >= RATE_LIMIT_MAX_REQUESTS, and the slip that admits one more
LimitReachedLate(entry) == entry.count > RATE_LIMIT_MAX_REQUESTS
LimitReached(entry) == entry.count >= RATE_LIMIT_MAX_REQUESTS

\* checkRateLimit: does the call at time t open a new window for ip
OpensWindow(store, ip, t) ==
  ip \notin DOMAIN store \/ t > store[ip].resetTime

\* checkRateLimit: the value returned
RateLimitAllowed(store, ip, t) ==
  OpensWindow(store, ip, t) \/ ~LimitReached(store[ip])

\* the entry of a new window, and the slip that does not count the opening request
NewWindowUncounted(t) == [count |-> 0, resetTime |-> t + RATE_LIMIT_WINDOW]
NewWindow(t) == [count |-> 1, resetTime |-> t + RATE_LIMIT_WINDOW]

\* the store left by a limiter that forgets userLimit.count++
RateLimitStoreAfterUncounted(store, ip, t) ==
  IF OpensWindow(store, ip, t)
  THEN [i \in DOMAIN store \cup {ip} |-> IF i = ip THEN NewWindow(t) ELSE store[i]]
  ELSE store

\* checkRateLimit: the store it leaves
RateLimitStoreAfter(store, ip, t) ==
  IF OpensWindow(store, ip, t)
  THEN [i \in DOMAIN store \cup {ip} |-> IF i = ip THEN NewWindow(t) ELSE store[i]]
  ELSE IF LimitReached(store[ip])
  THEN store
  ELSE [store EXCEPT ![ip].count = @ + 1]

\* request.headers.get('x-forwarded-for') || get('x-real-ip') || request.ip || 'unknown'
ClientIP(xff, xri, rip) ==
  IF xff # "" THEN xff ELSE IF xri # "" THEN xri ELSE IF rip # "" THEN rip ELSE "unknown"

-----------------------------------------------------------------------------
(* Validation of the request body *)

CharsOk(s) == \A i \in 1..Len(s) : s[i] \notin Forbidden
BatchCharsOk(s) ==
  \A i \in 1..Len(s) :
    InSeq(UpperChars, s[i]) \/ s[i] \in Digits \/ s[i] \in {"-", "_"} \/ s[i] \in Whitespace

\* a handler that does not test validationResult.success
SchemaUnchecked(body) == TRUE

\* verifyProductSchema.safeParse(body).success
SchemaOk(body) ==
  /\ body.productName # Undefined
  /\ Len(body.productName) >= NAME_MIN /\ Len(body.productName) <= NAME_MAX
  /\ CharsOk(body.productName)
  /\ body.productDescription # Undefined
  /\ Len(body.productDescription) >= DESC_MIN /\ Len(body.productDescription) <= DESC_MAX
  /\ CharsOk(body.productDescription)
  /\ body.userBatchNumber # Undefined =>
       Len(body.userBatchNumber) <= BATCH_MAX /\ BatchCharsOk(body.userBatchNumber)
  /\ body.images # Undefined => Len(body.images) <= IMAGES_MAX

\* validationResult.error.errors[0]?.message: the checks run in the order of the schema
FirstSchemaError(body) ==
  IF body.productName = Undefined THEN "Required"
  ELSE IF Len(body.productName) < NAME_MIN THEN "Product name must be at least 2 characters"
  ELSE IF Len(body.productName) > NAME_MAX THEN "Product name must not exceed 200 characters"
  ELSE IF ~CharsOk(body.productName) THEN "Product name contains invalid characters"
  ELSE IF body.productDescription = Undefined THEN "Required"
  ELSE IF Len(body.productDescription) < DESC_MIN
  THEN "Description must be at least 5 characters"
  ELSE IF Len(body.productDescription) > DESC_MAX
  THEN "Description must not exceed 1000 characters"
  ELSE IF ~CharsOk(body.productDescription) THEN "Description contains invalid characters"
  ELSE IF body.userBatchNumber # Undefined /\ Len(body.userBatchNumber) > BATCH_MAX
  THEN "Batch number must not exceed 50 characters"
  ELSE IF body.userBatchNumber # Undefined /\ ~BatchCharsOk(body.userBatchNumber)
  THEN "Batch number contains invalid characters"
  ELSE "Maximum 3 images allowed"

\* the body after lines 142-146
Sanitized(body) ==
  [body EXCEPT
     !.productName = sanitizeInput(@),
     !.productDescription = sanitizeInput(@),
     !.userBatchNumber = IF Truthy(@) THEN sanitizeInput(@) ELSE @]

-----------------------------------------------------------------------------
(* The alert queries *)

\* orderBy: { scrapedAt: 'desc' }
RECURSIVE SortDesc(_)
SortDesc(S) ==
  IF S = {} THEN <<>>
  ELSE LET top == CHOOSE a \in S : \A b \in S : b.scrapedAt <= a.scrapedAt
       IN <<top>> \o SortDesc(S \ {top})

Take(seq, n) == SubSeq(seq, 1, IF Len(seq) < n THEN Len(seq) ELSE n)

\* the where clause common to the three queries, and the slip that drops it
IsAnyAlert(a) == TRUE
IsActive(a) == a.active = TRUE

\* the select clause common to the three queries
Selected(a) ==
  [id |-> a.id, title |-> a.title, cleanContent |-> a.cleanContent, url |-> a.url,
   batchNumbers |-> a.batchNumbers, alertType |-> a.alertType, scrapedAt |-> a.scrapedAt]

\* batchNumbers: { has: v }
Has(a, v) == \E i \in 1..Len(a.batchNumbers) : a.batchNumbers[i] = v
\* contains with mode: 'insensitive'
ContainsInsensitive(field, v) ==
  field # Null /\ Contains(toLowerCase(field), toLowerCase(v))

\* findMany over the rows that meet the strategy's own condition
RunQuery(candidates) ==
  LET rows == SortDesc({a \in candidates : IsActive(a)})
  IN Take([i \in 1..Len(rows) |-> Selected(rows[i])], QUERY_TAKE)

BatchQuery(table, userBatchNumber) ==
  RunQuery({a \in table : Has(a, toUpperCase(userBatchNumber))})
TitleQuery(table, productName) ==
  RunQuery({a \in table : ContainsInsensitive(a.title, toLowerCase(productName))})
ContentTerm(searchText) == toLowerCase(FirstWord(searchText))
ContentQuery(table, searchText) ==
  RunQuery({a \in table : ContainsInsensitive(a.cleanContent, ContentTerm(searchText))})

\* a template that puts the description before the name
SearchTextDescriptionFirst(productName, productDescription, userBatchNumber, ocrText) ==
  trim(toLowerCase(
    <<"\n", " ", " ", " ", " ", " ", " ">>
    \o (IF Truthy(productDescription) THEN productDescription ELSE <<>>) \o <<" ">>
    \o (IF Truthy(productName) THEN productName ELSE <<>>) \o <<" ">>
    \o (IF Truthy(userBatchNumber) THEN userBatchNumber ELSE <<>>) \o <<" ">>
    \o ocrText
    \o <<"\n", " ", " ", " ", " ">>))

\* the template of lines 300-302
SearchText(productName, productDescription, userBatchNumber, ocrText) ==
  trim(toLowerCase(
    <<"\n", " ", " ", " ", " ", " ", " ">>
    \o (IF Truthy(productName) THEN productName ELSE <<>>) \o <<" ">>
    \o (IF Truthy(productDescription) THEN productDescription ELSE <<>>) \o <<" ">>
    \o (IF Truthy(userBatchNumber) THEN userBatchNumber ELSE <<>>) \o <<" ">>
    \o ocrText
    \o <<"\n", " ", " ", " ", " ">>))

\* the conditions of lines 313, 340 and 368
WantsBatchQuery(body) == Truthy(body.userBatchNumber)
WantsTitleQuery(body) == Truthy(body.productName) /\ Len(body.productName) > 3
WantsContentQuery(searchText) == Truthy(searchText) /\ Len(searchText) > 5

-----------------------------------------------------------------------------
(* Deduplication and the decision *)

\* self.findIndex(a => a.id === alert.id)
FindIndex(seq, id) == CHOOSE i \in 1..Len(seq) : seq[i].id = id /\ \A j \in 1..(i - 1) : seq[j].id # id

\* the filter predicate, and the slip that keeps the last occurrence instead
KeepsLast(seq, i) == \A j \in (i + 1)..Len(seq) : seq[j].id # seq[i].id
KeepsFirst(seq, i) == i = FindIndex(seq, seq[i].id)

RECURSIVE FilterFirst(_, _)
FilterFirst(seq, i) ==
  IF i > Len(seq) THEN <<>>
  ELSE (IF KeepsFirst(seq, i) THEN <<seq[i]>> ELSE <<>>) \o FilterFirst(seq, i + 1)

\* lines 395-398
UniqueAlerts(batchMatches, productMatches, contentMatches) ==
  LET allMatches == batchMatches \o productMatches \o contentMatches
  IN Take(FilterFirst(allMatches, 1), TOP_N)

Min(a, b) == IF a < b THEN a ELSE b

\* Math.min(95, 70 + (matchingAlerts.length * 5)), and the slip that leaves out the cap
MatchConfidenceUncapped(n) == 70 + (n * 5)
MatchConfidence(n) == Min(95, 70 + (n * 5))

\* alert.cleanContent || alert.title, joined by two newlines
AlertDetails(matchingAlerts) ==
  join([i \in 1..Len(matchingAlerts) |->
          IF Truthy(matchingAlerts[i].cleanContent)
          THEN matchingAlerts[i].cleanContent ELSE matchingAlerts[i].title],
       <<"\n", "\n">>)

\* matchingAlerts[0].batchNumbers?.join(', ') || null
JoinedBatches(alert) ==
  LET j == IF alert.batchNumbers = Null THEN <<>> ELSE join(alert.batchNumbers, <<",", " ">>)
  IN IF Truthy(j) THEN j ELSE Null

\* the result object with the initial alertType left empty
DecideWithoutDefault(matchingAlerts) ==
  LET isCounterfeit == Len(matchingAlerts) > 0
  IN [isCounterfeit |-> isCounterfeit,
      sourceUrl |-> IF isCounterfeit THEN matchingAlerts[1].url ELSE DEFAULT_SOURCE_URL,
      batchNumber |-> IF isCounterfeit THEN JoinedBatches(matchingAlerts[1]) ELSE Null,
      alertType |-> IF isCounterfeit THEN matchingAlerts[1].alertType ELSE "",
      confidence |-> IF isCounterfeit THEN MatchConfidence(Len(matchingAlerts)) ELSE 100,
      detectedAlertDetails |-> IF isCounterfeit THEN AlertDetails(matchingAlerts) ELSE Null,
      alertsFound |-> Len(matchingAlerts)]

\* the result object of lines 408-451
Decide(matchingAlerts) ==
  LET isCounterfeit == Len(matchingAlerts) > 0
      details == IF isCounterfeit THEN AlertDetails(matchingAlerts) ELSE <<>>
  IN [isCounterfeit |-> isCounterfeit,
      sourceUrl |-> IF isCounterfeit THEN matchingAlerts[1].url ELSE DEFAULT_SOURCE_URL,
      batchNumber |-> IF isCounterfeit THEN JoinedBatches(matchingAlerts[1]) ELSE Null,
      alertType |-> IF isCounterfeit THEN matchingAlerts[1].alertType ELSE "No Alert",
      confidence |-> IF isCounterfeit THEN MatchConfidence(Len(matchingAlerts)) ELSE 100,
      detectedAlertDetails |-> IF isCounterfeit THEN details ELSE Null,
      alertsFound |-> Len(matchingAlerts)]

\* result.confidence > 10 && result.confidence < 70 (line 461); a request for which it
\* held would wait at "ensemble", for a service whose code is not part of this model
NeedsEnsemble(result) == result.confidence > 10 /\ result.confidence < 70

-----------------------------------------------------------------------------
(* Responses *)

NoResult ==
  [isCounterfeit |-> FALSE, sourceUrl |-> "", batchNumber |-> Null, alertType |-> "",
   confidence |-> -1, detectedAlertDetails |-> Null, alertsFound |-> -1]

NoResponse ==
  [status |-> 0, error |-> "", message |-> "", secured |-> FALSE, result |-> NoResult,
   resultId |-> 0, newBalance |-> 0]

\* NextResponse.json({error, message}, {status}), with or without addSecurityHeaders
ErrorResponse(status, error, message, secured) ==
  [NoResponse EXCEPT !.status = status, !.error = error, !.message = message,
                     !.secured = secured]

RateLimitResponse ==
  ErrorResponse(429, "Too many requests", "Please wait a moment before trying again.", TRUE)
InvalidJsonResponse ==
  ErrorResponse(400, "Invalid request format", "Request body must be valid JSON", TRUE)
ValidationResponse(message) ==
  ErrorResponse(400, "Invalid input",
                IF message # "" THEN message ELSE "Invalid request format", TRUE)
AuthResponse == ErrorResponse(401, "Authentication required", "", TRUE)
PointsResponse ==
  ErrorResponse(400, "Insufficient points",
    "You need at least 1 point for verification. Daily points will be available tomorrow.",
    TRUE)
DbResponse ==
  ErrorResponse(503, "Service temporarily unavailable", "Please try again later.", TRUE)
MissingResponse ==
  ErrorResponse(400, "Missing product information - name and description required", "",
    FALSE)
\* the 500 response with the error text passed on to the client
FailureResponseLeaking(errorMessage) ==
  ErrorResponse(500, "Verification failed", errorMessage, TRUE)

\* lines 584-604: errorMessage goes to the log only
FailureResponse(errorMessage) ==
  ErrorResponse(500, "Verification failed",
    "An error occurred during product verification. Please try again.", TRUE)

\* lines 523-536: the response of the branch result.confidence === 0
SafeResponse(resultId, user) ==
  [status |-> 200, error |-> "", message |-> "", secured |-> TRUE,
   result |-> [isCounterfeit |-> FALSE, sourceUrl |-> DEFAULT_SOURCE_URL,
               batchNumber |-> Null, alertType |-> "No Alert", confidence |-> 0,
               detectedAlertDetails |-> Null, alertsFound |-> -1],
   resultId |-> resultId, newBalance |-> user.pointsBalance - 1]

\* lines 556-582
SuccessResponse(resultId, result, user) ==
  [status |-> 200, error |-> "", message |-> "", secured |-> TRUE, result |-> result,
   resultId |-> resultId, newBalance |-> user.pointsBalance - 1]

-----------------------------------------------------------------------------
(* One invocation of POST *)

NoBody ==
  [json |-> FALSE, productName |-> Undefined, productDescription |-> Undefined,
   userBatchNumber |-> Undefined, images |-> Undefined]
NoSession == [present |-> FALSE, id |-> "", email |-> ""]
NoUser == [found |-> FALSE, pointsBalance |-> 0, email |-> ""]

IdleReq ==
  [pc |-> "idle", ip |-> "", body |-> NoBody, cookie |-> NoSession, requestBody |-> NoBody,
   authStart |-> 0, calls |-> <<>>, term |-> Undefined,
   session |-> NoSession, user |-> NoUser, userRead |-> FALSE, ocrText |-> <<>>, searchText |-> <<>>,
   batchMatches |-> <<>>, productMatches |-> <<>>, contentMatches |-> <<>>,
   matchingAlerts |-> <<>>, result |-> NoResult, savedId |-> 0, response |-> NoResponse,
   thrown |-> "", queries |-> <<>>, writes |-> <<>>]

\* the handler has awaited `call`
Called(rec, call) == [rec EXCEPT !.calls = Append(@, call)]

\* the fields read from the request a second time, as the client sent them
ProductFieldsReadAgain(rec) == rec.body

\* line 255: the fields come from requestBody, the request is not read again
ProductFields(rec) == rec.requestBody

\* the handler returns `response`
Respond(rec, response) == [rec EXCEPT !.pc = "done", !.response = response]

\* an inner catch block (lines 148, 232) catches `error` and returns `response`
Fail(rec, error, response) == [Respond(rec, response) EXCEPT !.thrown = error]

\* the outer catch block (line 584) catches `error`
Catch(rec, error) == Fail(rec, error, FailureResponse(error))

\* lines 394-480: after the queries, up to the first write
ToDecision(rec) ==
  LET matching == UniqueAlerts(rec.batchMatches, rec.productMatches, rec.contentMatches)
      result == Decide(matching)
  IN [rec EXCEPT !.matchingAlerts = matching, !.result = result,
                 !.pc = IF NeedsEnsemble(result) THEN "ensemble" ELSE "update"]

\* lines 311-392: the next query to issue from strategy `stage` on
ToSearch(rec, stage) ==
  IF stage <= 1 /\ WantsBatchQuery(ProductFields(rec)) THEN [rec EXCEPT !.pc = "q1"]
  ELSE IF stage <= 2 /\ WantsTitleQuery(ProductFields(rec)) THEN [rec EXCEPT !.pc = "q2"]
  ELSE IF stage <= 3 /\ WantsContentQuery(rec.searchText) THEN [rec EXCEPT !.pc = "q3"]
  ELSE ToDecision(rec)

\* lines 299-302
AfterOcr(rec, ocrText) ==
  ToSearch([rec EXCEPT !.ocrText = ocrText,
                       !.searchText = SearchText(ProductFields(rec).productName,
                                                 ProductFields(rec).productDescription,
                                                 ProductFields(rec).userBatchNumber, ocrText)],
           1)

\* images && images.length > 0
HasImages(body) == body.images # Undefined /\ Len(body.images) > 0

\* the points check that lets a balance of 0 through
InsufficientPointsBelowZero(user) == ~user.found \/ user.pointsBalance < 0

\* !user || user.pointsBalance < 1
InsufficientPoints(user) == ~user.found \/ user.pointsBalance < 1

\* lines 214-297: from the points check to the OCR call
AfterUser(rec, user) ==
  LET rec1 == [rec EXCEPT !.user = user, !.userRead = TRUE]
  IN IF InsufficientPoints(user) THEN Respond(rec1, PointsResponse)
     ELSE IF \/ ~Truthy(ProductFields(rec).productName)
             \/ ~Truthy(ProductFields(rec).productDescription)
     THEN Respond(rec1, MissingResponse)
     ELSE IF HasImages(ProductFields(rec)) THEN [rec1 EXCEPT !.pc = "ocr"]
     ELSE AfterOcr(rec1, <<>>)

-----------------------------------------------------------------------------
(* Actions *)

\* the times of `times` inside the window that ends at t
Recent(times, t) == SelectSeq(times, LAMBDA x : t - x <= RATE_LIMIT_WINDOW)

\* lines 93-115: a request arrives; the rate limit is checked before the first await
Start(r) ==
  /\ r \in env.slots
  /\ req[r].pc = "idle"
  /\ \A ip \in DOMAIN rateLimitStore : rateLimitStore[ip].count < env.maxCount
  /\ \E h \in env.headers, body \in env.bodies, cookie \in env.sessions :
       LET ip == ClientIP(h[1], h[2], h[3])
           isAllowed == RateLimitAllowed(rateLimitStore, ip, now)
           rec == [IdleReq EXCEPT !.ip = ip, !.body = body, !.cookie = cookie]
       IN /\ rateLimitStore' = RateLimitStoreAfter(rateLimitStore, ip, now)
          /\ admitted' = IF isAllowed THEN [admitted EXCEPT ![ip] = Append(@, now)]
                         ELSE admitted
          /\ req' = [req EXCEPT ![r] = IF isAllowed THEN [rec EXCEPT !.pc = "parse"]
                                        ELSE Respond(rec, RateLimitResponse)]
  /\ UNCHANGED <<now, users, productChecks, checkResults, alerts, env>>

\* lines 117-167: request.json(), the schema, sanitization, and the call of auth()
ParseBody(r) ==
  /\ req[r].pc = "parse"
  /\ LET rec == Called(req[r], "request.json")
     IN req' = [req EXCEPT ![r] =
          IF ~rec.body.json THEN Fail(rec, "Unexpected token in JSON", InvalidJsonResponse)
          ELSE IF ~SchemaOk(rec.body)
          THEN Respond(rec, ValidationResponse(FirstSchemaError(rec.body)))
          ELSE [rec EXCEPT !.requestBody = Sanitized(rec.body), !.authStart = now,
                           !.pc = "auth"]]
  /\ UNCHANGED <<now, rateLimitStore, users, productChecks, checkResults, alerts, admitted, env>>

\* lines 163-200: Promise.race([auth(), createTimeoutPromise(10000)]) settles
Auth(r) ==
  /\ req[r].pc = "auth"
  /\ LET rec == Called(req[r], "auth")
         session == rec.cookie
     IN \/ /\ now - rec.authStart >= AUTH_TIMEOUT
           /\ req' = [req EXCEPT ![r] = Catch(rec, "Request timeout")]
        \/ /\ now - rec.authStart < AUTH_TIMEOUT
           /\ \E ok \in env.outcomes :
                req' = [req EXCEPT ![r] =
                  IF ~ok THEN Catch(rec, "auth() rejected")
                  ELSE IF ~session.present THEN Respond(rec, AuthResponse)
                  ELSE [rec EXCEPT !.session = session, !.pc = "findUser"]]
  /\ UNCHANGED <<now, rateLimitStore, users, productChecks, checkResults, alerts, admitted, env>>

\* lines 197-212: prisma.user.findUnique returns
FindUser(r) ==
  /\ req[r].pc = "findUser"
  /\ LET rec == Called(req[r], "user.findUnique")
         id == rec.session.id
         user == IF id \in DOMAIN users
                 THEN [found |-> TRUE, pointsBalance |-> users[id].pointsBalance,
                       email |-> users[id].email]
                 ELSE NoUser
     IN \E ok \in env.outcomes :
          req' = [req EXCEPT ![r] =
            IF ~ok THEN Fail(rec, "user.findUnique failed", DbResponse)
            ELSE IF ~user.found /\ rec.session.email # "" THEN [rec EXCEPT !.pc = "createUser"]
            ELSE AfterUser(rec, user)]
  /\ UNCHANGED <<now, rateLimitStore, users, productChecks, checkResults, alerts, admitted, env>>

\* lines 204-211: prisma.user.create returns
CreateUser(r) ==
  /\ req[r].pc = "createUser"
  /\ LET rec == Called(req[r], "user.create")
         id == rec.session.id
         row == [pointsBalance |-> DEFAULT_POINTS, email |-> rec.session.email]
     IN \E ok \in env.outcomes :
          IF ~ok \/ id \in DOMAIN users
          THEN /\ req' = [req EXCEPT ![r] = Fail(rec, "user.create failed", DbResponse)]
               /\ users' = users
          ELSE /\ users' = [i \in DOMAIN users \cup {id} |-> IF i = id THEN row ELSE users[i]]
               /\ req' = [req EXCEPT ![r] =
                    AfterUser(rec, [found |-> TRUE, pointsBalance |-> row.pointsBalance,
                                    email |-> row.email])]
  /\ UNCHANGED <<now, rateLimitStore, productChecks, checkResults, alerts, admitted, env>>

\* lines 276-297: the OCR call returns; a failure leaves ocrText empty
Ocr(r) ==
  /\ req[r].pc = "ocr"
  /\ \E text \in env.ocrTexts :
       req' = [req EXCEPT ![r] = AfterOcr(Called(req[r], "fetch"), text)]
  /\ UNCHANGED <<now, rateLimitStore, users, productChecks, checkResults, alerts, admitted, env>>

\* lines 311-336: Strategy 1 returns
QueryBatch(r) ==
  /\ req[r].pc = "q1"
  /\ LET rec == Called(req[r], "nafdacAlert.findMany")
         rows == BatchQuery(alerts, ProductFields(rec).userBatchNumber)
     IN \E ok \in env.outcomes :
          req' = [req EXCEPT ![r] =
            IF ~ok THEN Catch([rec EXCEPT !.queries = Append(@, "batch")],
                              "nafdacAlert.findMany failed")
            ELSE ToSearch([rec EXCEPT !.batchMatches = rows,
                                      !.queries = Append(@, "batch")], 2)]
  /\ UNCHANGED <<now, rateLimitStore, users, productChecks, checkResults, alerts, admitted, env>>

\* lines 338-364: Strategy 2 returns
QueryTitle(r) ==
  /\ req[r].pc = "q2"
  /\ LET rec == Called(req[r], "nafdacAlert.findMany")
         rows == TitleQuery(alerts, ProductFields(rec).productName)
     IN \E ok \in env.outcomes :
          req' = [req EXCEPT ![r] =
            IF ~ok THEN Catch([rec EXCEPT !.queries = Append(@, "title")],
                              "nafdacAlert.findMany failed")
            ELSE ToSearch([rec EXCEPT !.productMatches = rows,
                                      !.queries = Append(@, "title")], 3)]
  /\ UNCHANGED <<now, rateLimitStore, users, productChecks, checkResults, alerts, admitted, env>>

\* lines 366-392: Strategy 3 returns
QueryContent(r) ==
  /\ req[r].pc = "q3"
  /\ LET rec == Called([req[r] EXCEPT !.term = ContentTerm(req[r].searchText)],
                       "nafdacAlert.findMany")
         rows == ContentQuery(alerts, rec.searchText)
     IN \E ok \in env.outcomes :
          req' = [req EXCEPT ![r] =
            IF ~ok THEN Catch([rec EXCEPT !.queries = Append(@, "content")],
                              "nafdacAlert.findMany failed")
            ELSE ToSearch([rec EXCEPT !.contentMatches = rows,
                                      !.queries = Append(@, "content")], 4)]
  /\ UNCHANGED <<now, rateLimitStore, users, productChecks, checkResults, alerts, admitted, env>>

\* a decrement by the wrong amount
DecrementTwo(row) == [row EXCEPT !.pointsBalance = @ - 2]

\* pointsBalance: { decrement: 1 }
Decrement(row) == [row EXCEPT !.pointsBalance = @ - 1]

\* lines 485-491: prisma.user.update returns
UpdateBalance(r) ==
  /\ req[r].pc = "update"
  /\ LET rec == Called(req[r], "user.update")
         id == rec.session.id
     IN \E ok \in env.outcomes :
          IF ~ok \/ id \notin DOMAIN users
          THEN /\ req' = [req EXCEPT ![r] = Catch(rec, "user.update failed")]
               /\ users' = users
          ELSE /\ users' = [users EXCEPT ![id] = Decrement(@)]
               /\ req' = [req EXCEPT ![r] =
                    [rec EXCEPT !.pc = "createCheck",
                                !.writes = Append(@, [op |-> "decrement", row |-> 0,
                                   by |-> users[id].pointsBalance - users'[id].pointsBalance,
                                   stored |-> users'[id].pointsBalance])]]
  /\ UNCHANGED <<now, rateLimitStore, productChecks, checkResults, alerts, admitted, env>>

\* lines 493-502: prisma.productCheck.create returns
CreateProductCheck(r) ==
  /\ req[r].pc = "createCheck"
  /\ LET rec == Called(req[r], "productCheck.create")
         row == [id |-> Len(productChecks) + 1, userId |-> rec.session.id,
                 productName |-> ProductFields(rec).productName,
                 productDescription |-> ProductFields(rec).productDescription,
                 pointsUsed |-> 1]
     IN \E ok \in env.outcomes :
          IF ~ok
          THEN /\ req' = [req EXCEPT ![r] = Catch(rec, "productCheck.create failed")]
               /\ productChecks' = productChecks
          ELSE /\ productChecks' = Append(productChecks, row)
               /\ req' = [req EXCEPT ![r] =
                    [rec EXCEPT !.pc = "createResult", !.savedId = row.id,
                                !.writes = Append(@, [op |-> "productCheck", row |-> row.id,
                                                      by |-> 0, stored |-> 0])]]
  /\ UNCHANGED <<now, rateLimitStore, users, checkResults, alerts, admitted, env>>

\* the CheckResult row of lines 509-521 (result.confidence === 0) or of lines 542-554
CheckResultRow(rec) ==
  IF rec.result.confidence = 0
  THEN [userId |-> rec.session.id, productCheckId |-> rec.savedId, isCounterfeit |-> FALSE,
        sourceUrl |-> DEFAULT_SOURCE_URL, batchNumber |-> Null, alertType |-> "No Alert",
        confidence |-> 0]
  ELSE [userId |-> rec.session.id, productCheckId |-> rec.savedId,
        isCounterfeit |-> rec.result.isCounterfeit, sourceUrl |-> rec.result.sourceUrl,
        batchNumber |-> rec.result.batchNumber, alertType |-> rec.result.alertType,
        confidence |-> rec.result.confidence]

\* the 200 response of lines 523-536 or of lines 556-582
FinalResponse(rec) ==
  IF rec.result.confidence = 0
  THEN SafeResponse(rec.savedId, rec.user)
  ELSE SuccessResponse(rec.savedId, rec.result, rec.user)

\* lines 504-582: prisma.checkResult.create returns and the handler answers
CreateCheckResult(r) ==
  /\ req[r].pc = "createResult"
  /\ LET rec == Called(req[r], "checkResult.create")
     IN \E ok \in env.outcomes :
          IF ~ok
          THEN /\ req' = [req EXCEPT ![r] = Catch(rec, "checkResult.create failed")]
               /\ checkResults' = checkResults
          ELSE /\ checkResults' = Append(checkResults, CheckResultRow(rec))
               /\ req' = [req EXCEPT ![r] =
                    Respond([rec EXCEPT !.writes = Append(@, [op |-> "checkResult",
                                                              row |-> rec.savedId, by |-> 0,
                                                              stored |-> 0])],
                            FinalResponse(rec))]
  /\ UNCHANGED <<now, rateLimitStore, users, productChecks, alerts, admitted, env>>

\* the response has been sent; the slot is free for the next request
Finish(r) ==
  /\ req[r].pc = "done"
  /\ req' = [req EXCEPT ![r] = IdleReq]
  /\ UNCHANGED <<now, rateLimitStore, users, productChecks, checkResults, alerts, admitted, env>>

\* time passes
Tick ==
  /\ now + TickMs <= env.maxNow
  /\ now' = now + TickMs
  /\ admitted' = [ip \in DOMAIN admitted |-> Recent(admitted[ip], now')]
  /\ UNCHANGED <<rateLimitStore, users, productChecks, checkResults, alerts, req, env>>

Next ==
  \/ \E r \in Slots : Start(r)
  \/ \E r \in Slots : ParseBody(r)
  \/ \E r \in Slots : Auth(r)
  \/ \E r \in Slots : FindUser(r)
  \/ \E r \in Slots : CreateUser(r)
  \/ \E r \in Slots : Ocr(r)
  \/ \E r \in Slots : QueryBatch(r)
  \/ \E r \in Slots : QueryTitle(r)
  \/ \E r \in Slots : QueryContent(r)
  \/ \E r \in Slots : UpdateBalance(r)
  \/ \E r \in Slots : CreateProductCheck(r)
  \/ \E r \in Slots : CreateCheckResult(r)
  \/ \E r \in Slots : Finish(r)
  \/ Tick

-----------------------------------------------------------------------------
(* The environment: the alert table, the users and what the clients send *)

B1 == <<"B", "1">>
B2 == <<"B", "2">>
B3 == <<"B", "3">>

\* table NafdacAlert: 16 rows with distinct ids and scrape times
Alert(i) ==
  [id |-> i,
   title |-> IF i \in 5..11 THEN <<"X", " ", "A", "b", "C", "d">> ELSE <<"x", "y">>,
   cleanContent |-> IF i \in 13..16 THEN <<"w", " ", "a", "B", "c", "d", "z">>
                    ELSE IF i = 4 THEN <<>> ELSE <<"w", "w">>,
   url |-> "https://nafdac.gov.ng/alert-" \o ToString(i),
   batchNumbers |-> IF i = 2 THEN <<B3, B1>>
                    ELSE IF i \in 1..7 THEN <<B1>>
                    ELSE IF i = 8 THEN <<B2, B3>>
                    ELSE IF i \in {9, 10, 12} THEN <<B3>> ELSE <<>>,
   alertType |-> IF i % 2 = 0 THEN "Recall" ELSE "Counterfeit",
   active |-> i \notin {1, 9, 16},
   scrapedAt |-> (i * 7) % 17]

Corpus == {Alert(i) : i \in 1..16}

Body(name, description, batch, images) ==
  [json |-> TRUE, productName |-> name, productDescription |-> description,
   userBatchNumber |-> batch, images |-> images]

Desc == <<"d", "d", "d", "d", "d">>
ShortDesc == <<"d", " ", " ", " ", " ">>
\* a description whose words occur in the content of most alerts
DescW == <<"W", "w", " ", "w", "w">>
Abcd == <<"A", "b", "c", "d">>
Abc == <<"a", "b", "c">>
AbcW == <<"a", "b", "c", " ", "w">>
Wxy == <<"w", "x", "y">>
Wxyz == <<"w", "x", "y", "z">>
Image == <<"i">>

\* name, batch and content all match
BodyFull == Body(Abcd, Desc, B1, <<Image>>)
\* title and content match
BodyTitle == Body(<<" ">> \o Abcd \o <<"\t">>, Desc, Undefined, <<>>)
\* only the content matches, by the first word of the name
BodyContent == Body(AbcW, Desc, <<>>, Undefined)
\* only the batch number matches, of one alert and of four
BodyBatch == Body(Wxyz, Desc, <<" ">> \o B2, Undefined)
BodyFour == Body(Wxy, Desc, B3, Undefined)
\* nothing matches
BodyNone == Body(Wxyz, Desc, <<" ", " ">>, <<Image, Image>>)
\* nothing matches, though the words of the description occur in alerts
BodyNoneW == Body(Wxyz, DescW, Undefined, <<Image>>)
\* no query applies
BodyShort == Body(Abc, ShortDesc, Undefined, Undefined)
\* passes the schema and is empty once sanitized
BodyBlank == Body(<<" ", " ">>, Desc, Undefined, Undefined)
\* fails the schema
BodyBadName == Body(<<"a", "<", "b">>, Desc, Undefined, Undefined)
BodyBadBatch == Body(Abcd, Desc, <<"b", "1">>, Undefined)
BodyManyImages == Body(Abcd, Desc, Undefined, <<Image, Image, Image, Image>>)

Bodies ==
  {NoBody, BodyFull, BodyTitle, BodyContent, BodyBatch, BodyFour, BodyNone, BodyNoneW, BodyShort,
   BodyBlank,
   BodyBadName, BodyBadBatch, BodyManyImages}

\* the headers x-forwarded-for and x-real-ip and request.ip; "" when absent
Headers ==
  {<<"10.0.0.1", "10.0.0.2", "">>, <<"", "10.0.0.1", "10.0.0.3">>, <<"", "", "10.0.0.1">>,
   <<"", "", "">>}
ClientIPs == {ClientIP(h[1], h[2], h[3]) : h \in Headers}

Session(id, email) == [present |-> TRUE, id |-> id, email |-> email]
\* a user with a row, a user without one, and a user with neither row nor email
Sessions ==
  {NoSession, Session("u1", "u1@example.com"), Session("u2", "u2@example.com"),
   Session("u3", "")}

OcrTexts == {<<>>, <<"w", "w">>}

InitWith(e) ==
  /\ now = 0
  /\ rateLimitStore = <<>>
  /\ users = [i \in {"u1"} |-> [pointsBalance |-> e.balance, email |-> "u1@example.com"]]
  /\ productChecks = <<>>
  /\ checkResults = <<>>
  /\ alerts = Corpus
  /\ req = [r \in Slots |-> IdleReq]
  /\ admitted = [ip \in ClientIPs |-> <<>>]
  /\ env = e

\* one request at a time, every body, every session
Init ==
  InitWith([slots |-> {"r1"}, headers |-> {<<"", "", "10.0.0.1">>}, bodies |-> Bodies,
            sessions |-> Sessions, ocrTexts |-> OcrTexts, outcomes |-> BOOLEAN,
            maxNow |-> TickMs, maxCount |-> MaxRequests, balance |-> InitialBalance])

Spec == Init /\ [][Next]_vars

\* clients at one address that keep sending over several rate-limit windows, with and
\* without a session
InitRate ==
  InitWith([slots |-> {"r1"}, headers |-> {<<"", "", "">>}, bodies |-> {NoBody, BodyFull},
            sessions |-> {NoSession, Session("u2", "u2@example.com")}, ocrTexts |-> {<<>>},
            outcomes |-> {TRUE}, maxNow |-> MaxNow,
            maxCount |-> 2 * RATE_LIMIT_MAX_REQUESTS, balance |-> InitialBalance])

SpecRate == InitRate /\ [][Next]_vars

\* two requests in flight at once, of a user who holds one point and of a new user
InitConcurrent ==
  InitWith([slots |-> Slots, headers |-> {<<"", "", "10.0.0.1">>}, bodies |-> {BodyFull},
            sessions |-> {Session("u1", "u1@example.com"), Session("u2", "u2@example.com")},
            ocrTexts |-> {<<>>}, outcomes |-> {TRUE}, maxNow |-> TickMs, maxCount |-> 2,
            balance |-> 1])

SpecConcurrent == InitConcurrent /\ [][Next]_vars

-----------------------------------------------------------------------------
(* Properties *)

Done(r) == req[r].pc = "done"
Done200(r) == Done(r) /\ req[r].response.status = 200
\* the request is past the decision step
Decided(r) == req[r].result # NoResult
AllMatches(r) == req[r].batchMatches \o req[r].productMatches \o req[r].contentMatches
Ids(seq) == {seq[i].id : i \in 1..Len(seq)}

\* C1: a 200 response of a request whose queries returned no alert has
\* isCounterfeit = false, alertType "No Alert", batchNumber null,
\* detectedAlertDetails null and the default source URL.
ZeroFalsePositives ==
  \A r \in Slots :
    Done200(r) /\ AllMatches(r) = <<>> =>
      LET res == req[r].response.result
      IN /\ res.isCounterfeit = FALSE
         /\ res.alertType = "No Alert"
         /\ res.batchNumber = Null
         /\ res.detectedAlertDetails = Null
         /\ res.sourceUrl = DEFAULT_SOURCE_URL

ZeroFalsePositivesWitness ==
  \E r \in Slots :
    Done200(r) /\ AllMatches(r) = <<>> /\ Len(req[r].queries) >= 2
    /\ req[r].response.result.alertType = "No Alert"

\* some active alert lists the submitted batch number or has the full submitted
\* product name in its title, whatever the case of the letters
ExactMatch(r) ==
  \E a \in alerts, b \in {req[r].body, req[r].requestBody} :
    /\ a.active
    /\ \/ Truthy(b.userBatchNumber)
          /\ (Has(a, b.userBatchNumber) \/ Has(a, toUpperCase(b.userBatchNumber)))
       \/ ContainsInsensitive(a.title, b.productName)

\* C2: a 200 response has isCounterfeit = true only when an active alert lists the
\* submitted batch number or has the full submitted product name in its title.
FlaggedOnlyOnExactMatch ==
  \A r \in Slots :
    Done200(r) /\ req[r].response.result.isCounterfeit => ExactMatch(r)

\* C3: a request answered 200 has decremented the balance by exactly 1, then created
\* exactly one ProductCheck row with pointsUsed = 1, then exactly one CheckResult row
\* linked to it.
ThreeWritesInOrder ==
  \A r \in Slots :
    Done200(r) =>
      LET w == req[r].writes
          id == req[r].response.resultId
      IN /\ Len(w) = 3
         /\ w[1].op = "decrement" /\ w[1].by = 1
         /\ w[2].op = "productCheck" /\ w[2].row = id
         /\ w[3].op = "checkResult" /\ w[3].row = id
         /\ Cardinality({i \in 1..Len(productChecks) : productChecks[i].id = id}) = 1
         /\ \A i \in 1..Len(productChecks) :
              productChecks[i].id = id =>
                productChecks[i].pointsUsed = 1 /\ productChecks[i].userId = req[r].session.id
         /\ Cardinality({i \in 1..Len(checkResults) : checkResults[i].productCheckId = id}) = 1

ThreeWritesInOrderWitness ==
  \E r \in Slots :
    /\ Done200(r)
    /\ \E i \in 1..Len(productChecks) : productChecks[i].id = req[r].response.resultId
    /\ users[req[r].session.id].pointsBalance = req[r].user.pointsBalance - 1

\* C4: a request whose user row is missing or holds less than 1 point is answered
\* 400 "Insufficient points" with no alert query and no write; a 200 response had a
\* user row with at least 1 point.
NeedsOnePoint ==
  \A r \in Slots :
    /\ req[r].userRead /\ (~req[r].user.found \/ req[r].user.pointsBalance < 1) =>
         /\ Done(r)
         /\ req[r].response.status = 400
         /\ req[r].response.error = "Insufficient points"
         /\ req[r].queries = <<>>
         /\ req[r].writes = <<>>
    /\ Done200(r) => req[r].user.found /\ req[r].user.pointsBalance >= 1

NeedsOnePointWitness ==
  \E r \in Slots :
    /\ Done(r) /\ req[r].userRead /\ req[r].user.found /\ req[r].user.pointsBalance = 0
    /\ req[r].response.error = "Insufficient points"

\* the index of the first alert with this id in `all`
FirstAt(all, id) ==
  CHOOSE i \in 1..Len(all) : all[i].id = id /\ \A j \in 1..(i - 1) : all[j].id # id

\* C7: the match list of the decision has no two alerts with the same id and at
\* most 10 entries, holds for each id its first occurrence in batch matches ++
\* title matches ++ content matches, in that order, and holds every id when there
\* are at most 10.
DedupById ==
  \A r \in Slots :
    Decided(r) =>
      LET all == AllMatches(r)
          m == req[r].matchingAlerts
      IN /\ \A i, j \in 1..Len(m) : i # j => m[i].id # m[j].id
         /\ Len(m) <= 10
         /\ \A i \in 1..Len(m) : m[i].id \in Ids(all) /\ m[i] = all[FirstAt(all, m[i].id)]
         /\ \A i, j \in 1..Len(m) : i < j => FirstAt(all, m[i].id) < FirstAt(all, m[j].id)
         /\ Cardinality(Ids(all)) <= 10 => Ids(m) = Ids(all)
         /\ \A id \in Ids(all) \ Ids(m) :
              Len(m) = 10 /\ \A i \in 1..Len(m) : FirstAt(all, m[i].id) < FirstAt(all, id)

DedupByIdWitness ==
  \E r \in Slots :
    /\ Decided(r)
    /\ Cardinality(Ids(AllMatches(r))) > 10
    /\ Len(AllMatches(r)) > Cardinality(Ids(AllMatches(r)))
    /\ Len(req[r].matchingAlerts) = 10

\* the CheckResult rows of a ProductCheck
ResultsOf(id) == {i \in 1..Len(checkResults) : checkResults[i].productCheckId = id}

\* C8: with n deduplicated matches the confidence is 100 for n = 0 and
\* min(95, 70 + 5n) for n >= 1, so one of 75, 80, 85, 90, 95, 100 and non-decreasing
\* in n; a 200 response returns and stores it, and has isCounterfeit = true exactly
\* when alertsFound >= 1, exactly when confidence < 100.
ConfidenceFormula ==
  /\ \A n, m \in 1..TOP_N : n <= m => MatchConfidence(n) <= MatchConfidence(m)
  /\ \A r \in Slots :
       Decided(r) =>
         LET n == Len(req[r].matchingAlerts)
             c == req[r].result.confidence
         IN /\ c \in {75, 80, 85, 90, 95, 100}
            /\ n = 0 => c = 100
            /\ n >= 1 => c = (IF 70 + 5 * n < 95 THEN 70 + 5 * n ELSE 95)
  /\ \A r \in Slots :
       Done200(r) =>
         LET res == req[r].response.result
         IN /\ res.confidence = req[r].result.confidence
            /\ res.alertsFound = Len(req[r].matchingAlerts)
            /\ \A i \in ResultsOf(req[r].response.resultId) :
                 /\ checkResults[i].confidence = res.confidence
                 /\ checkResults[i].isCounterfeit = res.isCounterfeit
            /\ res.isCounterfeit <=> res.alertsFound >= 1
            /\ res.alertsFound >= 1 <=> res.confidence < 100

ConfidenceFormulaWitness ==
  \E r \in Slots :
    /\ Done200(r)
    /\ req[r].response.result.alertsFound = 10
    /\ req[r].response.result.confidence = 95
    /\ \E i \in ResultsOf(req[r].response.resultId) : checkResults[i].confidence = 95

Strategies == <<"batch", "title", "content">>
\* the alerts of `rows` are active rows of the table, at most 5 of them
ActiveRows(rows) ==
  /\ Len(rows) <= 5
  /\ \A i \in 1..Len(rows) : \E a \in alerts : a.id = rows[i].id /\ a.active

\* C9: the queries of a request are issued one after another in the order batch,
\* title, content, at most three; the batch query only for a non-empty batch number,
\* the title query only for a sanitized name longer than 3, the content query only
\* for a search text longer than 5; each returns at most 5 alerts, all active.
QueryOrder ==
  \A r \in Slots :
    LET q == req[r].queries
    IN /\ Len(q) <= 3
       /\ \A i \in 1..Len(q) : InSeq(Strategies, q[i])
       /\ \A i, j \in 1..Len(q) : i < j => Index(Strategies, q[i]) < Index(Strategies, q[j])
       /\ req[r].pc = "q1" => q = <<>>
       /\ req[r].pc = "q2" => ~InSeq(q, "title") /\ ~InSeq(q, "content")
       /\ req[r].pc = "q3" => ~InSeq(q, "content")
       /\ InSeq(q, "batch") \/ req[r].pc = "q1" =>
            /\ req[r].body.userBatchNumber \notin {Undefined, <<>>}
            /\ req[r].requestBody.userBatchNumber \notin {Undefined, <<>>}
       /\ InSeq(q, "title") \/ req[r].pc = "q2" => Len(req[r].requestBody.productName) > 3
       /\ InSeq(q, "content") \/ req[r].pc = "q3" => Len(req[r].searchText) > 5
       /\ ActiveRows(req[r].batchMatches)
       /\ ActiveRows(req[r].productMatches)
       /\ ActiveRows(req[r].contentMatches)

QueryOrderWitness ==
  \E r \in Slots :
    /\ req[r].queries = Strategies
    /\ Len(req[r].batchMatches) = 5
    /\ Len(req[r].productMatches) = 5
    /\ req[r].contentMatches # <<>>

OuterFailures ==
  {"Request timeout", "nafdacAlert.findMany failed", "user.update failed",
   "productCheck.create failed", "checkResult.create failed"}

IsPrefix(s, t) == Len(s) <= Len(t) /\ \A i \in 1..Len(s) : s[i] = t[i]

\* a failure is answered 500 with the fixed body, and nothing was tried twice
AnsweredWith500 ==
  \A r \in Slots :
    Done(r) /\ req[r].thrown \in OuterFailures =>
      /\ req[r].response.status = 500
      /\ req[r].response.error = "Verification failed"
      /\ req[r].response.message
           = "An error occurred during product verification. Please try again."
      /\ req[r].thrown \notin {req[r].response.error, req[r].response.message}
      /\ \A i, j \in 1..Len(req[r].queries) : i # j => req[r].queries[i] # req[r].queries[j]
      /\ IsPrefix([i \in 1..Len(req[r].writes) |-> req[r].writes[i].op],
                  <<"decrement", "productCheck", "checkResult">>)

\* no step gives a point back or removes a row
NoCompensation ==
  /\ \A id \in DOMAIN users :
       id \in DOMAIN users' /\ users'[id].pointsBalance <= users[id].pointsBalance
  /\ IsPrefix(productChecks, productChecks')
  /\ IsPrefix(checkResults, checkResults')

\* C10: when the authentication does not settle within 10 seconds, or an alert
\* query, the balance update or the creation of the ProductCheck or CheckResult row
\* throws, the answer is 500 with the fixed body, without the error text, and
\* nothing is retried or undone.
GenericFailure == []AnsweredWith500 /\ [][NoCompensation]_vars

GenericFailureWitness ==
  \E r \in Slots :
    /\ Done(r) /\ req[r].thrown = "productCheck.create failed"
    /\ req[r].response.status = 500
    /\ Len(req[r].writes) = 1
    /\ users[req[r].session.id].pointsBalance = req[r].user.pointsBalance - 1

TimeoutWitness ==
  \E r \in Slots :
    Done(r) /\ req[r].thrown = "Request timeout" /\ req[r].response.status = 500

\* the requests of ip admitted in the window its store entry describes
InWindow(ip) ==
  SelectSeq(admitted[ip],
            LAMBDA x : /\ x >= rateLimitStore[ip].resetTime - RATE_LIMIT_WINDOW
                       /\ x <= rateLimitStore[ip].resetTime)

WindowCounts ==
  \A ip \in DOMAIN rateLimitStore :
    /\ rateLimitStore[ip].count <= 10
    /\ Len(InWindow(ip)) <= 10
    /\ now <= rateLimitStore[ip].resetTime => Len(InWindow(ip)) = rateLimitStore[ip].count

\* a request that arrives is refused with 429 exactly when its window is full
RefusedWhenFull ==
  \A r \in Slots :
    req[r].pc = "idle" /\ req'[r].pc # "idle" =>
      LET ip == req'[r].ip
          full == /\ ip \in DOMAIN rateLimitStore
                  /\ now <= rateLimitStore[ip].resetTime
                  /\ rateLimitStore[ip].count >= 10
      IN IF full
         THEN /\ req'[r].pc = "done" /\ req'[r].response.status = 429
              /\ rateLimitStore' = rateLimitStore
              /\ admitted' = admitted
         ELSE req'[r].pc = "parse" /\ admitted'[ip] = Append(admitted[ip], now)

\* C5: within one window, from the request that opens it to its resetTime, at most
\* 10 requests of an IP are admitted, every further one is answered 429, and the
\* stored count never exceeds 10.
RateLimitPerWindow == []WindowCounts /\ [][RefusedWhenFull]_vars

RateLimitPerWindowWitness ==
  \E r \in Slots :
    /\ Done(r) /\ req[r].response.status = 429
    /\ rateLimitStore[req[r].ip].count = 10
    /\ Len(InWindow(req[r].ip)) = 10
    /\ now = rateLimitStore[req[r].ip].resetTime

\* the requests of ip admitted in the 60 seconds that end now
LastMinute(ip) == SelectSeq(admitted[ip], LAMBDA x : now - x < RATE_LIMIT_WINDOW)

\* C6 as stated: in any interval of 60 seconds at most 10 requests of an IP are
\* admitted.
TenPerMinute == \A ip \in DOMAIN admitted : Len(LastMinute(ip)) <= 10

\* C6: in any interval of 60 seconds at most 19 requests of an IP are admitted: the
\* last 9 of one window and the 10 of the next.
NineteenPerMinute ==
  \A ip \in DOMAIN admitted : Len(LastMinute(ip)) <= 2 * RATE_LIMIT_MAX_REQUESTS - 1

NineteenPerMinuteWitness ==
  \E ip \in DOMAIN admitted : Len(LastMinute(ip)) = 19

\* C11: every response of the handler, whatever its status, has passed through
\* addSecurityHeaders.
EveryResponseSecured ==
  \A r \in Slots : Done(r) => req[r].response.secured

\* the number of times `call` occurs in calls
Count(calls, call) == Cardinality({i \in 1..Len(calls) : calls[i] = call})

\* C12: request.json() is awaited at most once by a request, and the fields that reach
\* the queries, the search text and the ProductCheck row are those of that one parsed
\* body, sanitized.
BodyReadOnce ==
  \A r \in Slots :
    LET rec == req[r]
        parsed == Sanitized(rec.body)
    IN /\ Count(rec.calls, "request.json") <= 1
       /\ rec.pc \notin {"idle", "parse"} => Count(rec.calls, "request.json") = 1
       /\ rec.userRead /\ rec.pc \notin {"done", "ocr"} =>
            rec.searchText = SearchText(parsed.productName, parsed.productDescription,
                                         parsed.userBatchNumber, rec.ocrText)
       /\ rec.savedId # 0 =>
            \E i \in 1..Len(productChecks) :
              /\ productChecks[i].id = rec.savedId
              /\ productChecks[i].productName = parsed.productName
              /\ productChecks[i].productDescription = parsed.productDescription

BodyReadOnceWitness ==
  \E r \in Slots :
    /\ Done200(r)
    /\ Count(req[r].calls, "request.json") = 1
    /\ req[r].body.productName # Sanitized(req[r].body).productName
    /\ \E i \in 1..Len(productChecks) :
         /\ productChecks[i].id = req[r].savedId
         /\ productChecks[i].productName = Sanitized(req[r].body).productName

\* C13: a 200 response of a request whose queries returned no alert comes from the
\* branch result.confidence === 0: isCounterfeit = false, alertType "No Alert",
\* batchNumber null and confidence 0, in the response and in its CheckResult row.
NoMatchTakesZeroBranch ==
  \A r \in Slots :
    Done200(r) /\ AllMatches(r) = <<>> =>
      /\ req[r].result.confidence = 0
      /\ req[r].response = SafeResponse(req[r].savedId, req[r].user)
      /\ req[r].response.result.confidence = 0
      /\ \A row \in ResultsOf(req[r].savedId) : row.confidence = 0

\* what the request that arrives in this step costs its address
ConsumesQuota ==
  \A r \in Slots :
    req[r].pc = "idle" /\ req'[r].pc # "idle" =>
      LET ip == req'[r].ip
          before == IF ip \in DOMAIN rateLimitStore /\ now <= rateLimitStore[ip].resetTime
                    THEN rateLimitStore[ip].count ELSE 0
      IN IF req'[r].pc = "done"
         THEN /\ req'[r].response.status = 429
              /\ rateLimitStore' = rateLimitStore
              /\ <<users, productChecks, checkResults, alerts>>' =
                   <<users, productChecks, checkResults, alerts>>
         ELSE rateLimitStore'[ip].count = before + 1

\* a refused request has made no call; a request answered 400 or 401 was admitted
RefusedBeforeAnyCall ==
  \A r \in Slots :
    Done(r) =>
      /\ req[r].response.status = 429 =>
           /\ req[r].calls = <<>> /\ req[r].queries = <<>> /\ req[r].writes = <<>>
           /\ ~req[r].userRead /\ req[r].requestBody = NoBody
      /\ req[r].response.status \in {400, 401} =>
           /\ req[r].calls # <<>>
           /\ req[r].ip \in DOMAIN rateLimitStore

\* C14: a request refused by checkRateLimit is answered 429 before its body is
\* parsed, auth() is called or a table is read or written, and it leaves the store
\* as it was; every other request, also one answered 400 or 401 later, adds one to
\* the count of its address.
RateLimitFirst == []RefusedBeforeAnyCall /\ [][ConsumesQuota]_vars

\* the eleventh request of a window, after ten that were all answered 400 or 401
RateLimitFirstWitness ==
  \E r \in Slots :
    /\ Done(r) /\ req[r].response.status = 429 /\ req[r].calls = <<>>
    /\ rateLimitStore[req[r].ip].count = RATE_LIMIT_MAX_REQUESTS
    /\ "u2" \notin DOMAIN users

\* bodies that are not JSON or that the schema rejects
InvalidBodies == {NoBody, BodyBadName, BodyBadBatch, BodyManyImages}

\* the calls that read or write a table
DataCalls ==
  {"user.findUnique", "user.create", "nafdacAlert.findMany", "user.update",
   "productCheck.create", "checkResult.create"}

\* C15: the body is parsed and validated before auth() is called and auth() has
\* returned a session before any table is read or written: an invalid body is
\* answered 400 with or without a session, and a valid one without a session 401,
\* with no call on user, nafdacAlert, productCheck or checkResult.
ValidationThenAuthThenData ==
  \A r \in Slots :
    LET rec == req[r]
    IN /\ \A i \in 1..Len(rec.calls) :
            /\ rec.calls[i] = "request.json" => i = 1
            /\ rec.calls[i] = "auth" => i = 2 /\ SchemaOk(rec.body) /\ rec.body.json
            /\ rec.calls[i] \in DataCalls => i >= 3 /\ rec.cookie.present
       /\ Done(r) /\ rec.calls # <<>> /\ rec.body \in InvalidBodies =>
            /\ rec.response.status = 400
            /\ rec.response.error \in {"Invalid request format", "Invalid input"}
            /\ rec.calls = <<"request.json">>
       /\ Done(r) /\ rec.calls # <<>> /\ rec.body \notin InvalidBodies
             /\ ~rec.cookie.present /\ rec.thrown = "" =>
            rec.response.status = 401
       /\ Done(r) /\ rec.response.status = 401 =>
            /\ rec.calls = <<"request.json", "auth">>
            /\ ~rec.userRead /\ rec.queries = <<>> /\ rec.writes = <<>>

\* an invalid body without a session, answered 400
ValidationThenAuthThenDataWitness ==
  \E r \in Slots :
    /\ Done(r) /\ req[r].body = BodyBadName /\ ~req[r].cookie.present
    /\ req[r].response.status = 400 /\ req[r].calls = <<"request.json">>

\* the 200 responses given to user id so far: one CheckResult row each
Served(id) == Cardinality({i \in 1..Len(checkResults) : checkResults[i].userId = id})

\* C16: whatever the interleaving of the requests of one user, the stored
\* pointsBalance is never negative, and the user is given no more 200 responses than
\* the points held at the start.
BalanceNeverNegative ==
  /\ \A id \in DOMAIN users : users[id].pointsBalance >= 0
  /\ Served("u1") <= env.balance

\* C17: the newBalance of a 200 response is the pointsBalance that the request's own
\* decrement stored, also when another request of the user ran in between.
NewBalanceIsStored ==
  \A r \in Slots :
    Done200(r) => req[r].response.newBalance = req[r].writes[1].stored

\* the descriptions a client may send instead of the one it sent
Descriptions == {Desc, DescW}

\* the match list of the request of r had it been sent with description d and had
\* the OCR call returned o
MatchesWith(r, d, o) ==
  LET b == Sanitized([req[r].body EXCEPT !.productDescription = d])
      text == SearchText(b.productName, b.productDescription, b.userBatchNumber, o)
  IN UniqueAlerts(IF WantsBatchQuery(b) THEN BatchQuery(alerts, b.userBatchNumber) ELSE <<>>,
                  IF WantsTitleQuery(b) THEN TitleQuery(alerts, b.productName) ELSE <<>>,
                  IF WantsContentQuery(text) THEN ContentQuery(alerts, text) ELSE <<>>)

\* the length of the search text of that other request
TextLengthWith(r, d, o) ==
  LET b == Sanitized([req[r].body EXCEPT !.productDescription = d])
  IN Len(SearchText(b.productName, b.productDescription, b.userBatchNumber, o))

\* C18: the term of the content query is the first space-delimited word of the
\* sanitized, lower-cased product name, and a request with a search text longer than
\* 5 characters has the match list of every request that differs from it only in the
\* description or the OCR text and also has a search text longer than 5 characters.
ContentTermFromName ==
  \A r \in Slots :
    /\ req[r].term # Undefined =>
         req[r].term = FirstWord(toLowerCase(sanitizeInput(req[r].body.productName)))
    /\ Decided(r) /\ Len(req[r].searchText) > 5 =>
         \A d \in Descriptions, o \in OcrTexts :
           TextLengthWith(r, d, o) > 5 => MatchesWith(r, d, o) = req[r].matchingAlerts

\* a request whose description and OCR text are words of alerts and whose name is not
ContentTermFromNameWitness ==
  \E r \in Slots :
    /\ Decided(r) /\ InSeq(req[r].queries, "content")
    /\ req[r].body.productDescription = DescW /\ req[r].ocrText = <<"w", "w">>
    /\ req[r].term = <<"w", "x", "y", "z">>
    /\ req[r].contentMatches = <<>>
    /\ \E a \in alerts : a.active /\ ContainsInsensitive(a.cleanContent, <<"w", "w">>)

====
